---- MODULE Spec2Model ----
(***************************************************************************)
(* send-my-project-to-llm: the command-line tool that walks a directory,   *)
(* selects files by extension / include pattern, drops what the built-in,  *)
(* user and .gitignore exclusions match, and copies the labelled contents  *)
(* to the clipboard.                                                       *)
(*                                                                         *)
(* JavaScript strings are sequences of one-character strings, so that      *)
(* startsWith, endsWith, path.join, path.relative, the split on "/" and    *)
(* the glob wildcards are computed character by character.  The output     *)
(* buffer is a sequence of pieces: the characters of a path, and whole     *)
(* literals ("\n=== ", a file's content) kept as single pieces.            *)
(***************************************************************************)
EXTENDS Naturals, Sequences, FiniteSets, TLC

(***************************************************************************)
(* String helpers (String.prototype.startsWith / endsWith / trim / split). *)
(***************************************************************************)
StartsWith(s, p) == Len(p) <= Len(s) /\ SubSeq(s, 1, Len(p)) = p

EndsWith(s, p) == Len(p) <= Len(s) /\ SubSeq(s, Len(s) - Len(p) + 1, Len(s)) = p

RECURSIVE TrimLeft(_)
TrimLeft(s) == IF s # <<>> /\ s[1] = " " THEN TrimLeft(Tail(s)) ELSE s

RECURSIVE TrimRight(_)
TrimRight(s) ==
    IF s # <<>> /\ s[Len(s)] = " " THEN TrimRight(SubSeq(s, 1, Len(s) - 1)) ELSE s

Trim(s) == TrimRight(TrimLeft(s))

RECURSIVE SplitAt(_, _, _, _)
SplitAt(s, sep, i, start) ==
    IF i > Len(s) THEN << SubSeq(s, start, Len(s)) >>
    ELSE IF s[i] = sep
         THEN << SubSeq(s, start, i - 1) >> \o SplitAt(s, sep, i + 1, i + 1)
         ELSE SplitAt(s, sep, i + 1, start)

Split(s, sep) == SplitAt(s, sep, 1, 1)

RECURSIVE JoinWith(_, _)
JoinWith(parts, sep) ==
    IF parts = <<>> THEN <<>>
    ELSE IF Len(parts) = 1 THEN parts[1]
    ELSE parts[1] \o <<sep>> \o JoinWith(Tail(parts), sep)

(***************************************************************************)
(* path.join / path.relative / path.resolve (POSIX).                       *)
(***************************************************************************)
RECURSIVE NormalizeParts(_, _)
NormalizeParts(parts, acc) ==
    IF parts = <<>> THEN acc
    ELSE IF parts[1] = <<>> \/ parts[1] = <<".">>
         THEN NormalizeParts(Tail(parts), acc)
    ELSE IF parts[1] = <<".",".">>
         THEN NormalizeParts(Tail(parts),
                             IF acc = <<>> THEN acc ELSE SubSeq(acc, 1, Len(acc) - 1))
    ELSE NormalizeParts(Tail(parts), Append(acc, parts[1]))

\* path.resolve of an absolute or cwd-relative path: always absolute, normalised.
pathResolve(cwdir, p) ==
    LET abs == IF StartsWith(p, <<"/">>) THEN p ELSE cwdir \o <<"/">> \o p
    IN  <<"/">> \o JoinWith(NormalizeParts(Split(abs, "/"), <<>>), "/")

\* path.join(dir, name) for a normalised dir and a plain entry name.
pathJoin(dir, name) == dir \o <<"/">> \o name

\* path.relative(from, to) for absolute normalised paths, to at or below from.
pathRelative(from, to) ==
    IF to = from THEN <<>>
    ELSE IF StartsWith(to, from \o <<"/">>) THEN SubSeq(to, Len(from) + 2, Len(to))
    ELSE <<".",".","/">> \o to

(***************************************************************************)
(* minimatch(path, pattern, {dot: true}): both are split on "/", a pattern *)
(* part "**" is a globstar, any other part is matched against one path     *)
(* part with "*" (any run of characters) and "?" (one character).          *)
(***************************************************************************)
GLOBSTAR == <<"*","*">>

DotDirs == { <<".">>, <<".",".">> }

HasMagic(p) == \E i \in 1..Len(p) : p[i] \in {"*", "?"}

RECURSIVE GlobChars(_, _, _, _)
GlobChars(p, i, s, j) ==
    IF i > Len(p) THEN j > Len(s)
    ELSE IF p[i] = "*"
         THEN GlobChars(p, i + 1, s, j) \/ (j <= Len(s) /\ GlobChars(p, i, s, j + 1))
    ELSE IF p[i] = "?"
         THEN j <= Len(s) /\ GlobChars(p, i + 1, s, j + 1)
    ELSE j <= Len(s) /\ p[i] = s[j] /\ GlobChars(p, i + 1, s, j + 1)

\* One pattern part against one path part.  A part without wildcards is compared
\* as a string; a part with wildcards needs a non-empty path part other than "."
\* and "..", and with dot: true a leading "." is an ordinary character.
matchPart(p, f) ==
    IF HasMagic(p) THEN f # <<>> /\ f \notin DotDirs /\ GlobChars(p, 1, f, 1)
    ELSE f = p

\* Minimatch.matchOne: file and pattern are sequences of parts, fi and pi the
\* positions reached.
RECURSIVE matchOne(_, _, _, _)
matchOne(file, fi, pattern, pi) ==
    LET fl == Len(file)
        pl == Len(pattern)
    IN  IF fi > fl \/ pi > pl
        THEN IF fi > fl /\ pi > pl THEN TRUE
             ELSE IF fi > fl THEN FALSE
             ELSE fi = fl /\ file[fi] = <<>>
        ELSE IF pattern[pi] = GLOBSTAR
        THEN IF pi = pl
             THEN \A k \in fi..fl : file[k] \notin DotDirs
             ELSE \E fr \in fi..fl :
                     /\ \A k \in fi..(fr - 1) : file[k] \notin DotDirs
                     /\ matchOne(file, fr, pattern, pi + 1)
        ELSE matchPart(pattern[pi], file[fi]) /\ matchOne(file, fi + 1, pattern, pi + 1)

minimatch(p, pattern) == matchOne(Split(p, "/"), 1, Split(pattern, "/"), 1)

(***************************************************************************)
(* The ignore library: ignore().add(content) and .ignores(path).           *)
(* A rule is one line of the file that is neither blank nor a comment; a   *)
(* leading "!" negates it, a trailing "/" restricts it to directories, a   *)
(* "/" elsewhere anchors it to the root, otherwise it is matched against   *)
(* the last part of the path.  The last matching rule decides, and a path  *)
(* under an ignored directory cannot be re-included.                       *)
(***************************************************************************)
IsRuleLine(line) == Trim(line) # <<>> /\ line[1] # "#"

\* Faulty variant of makeRule: a leading "!" is taken for a character of the pattern.
makeRuleNoNegation(line) ==
    LET dirOnly  == line[Len(line)] = "/"
        core     == IF dirOnly THEN SubSeq(line, 1, Len(line) - 1) ELSE line
        anchored == \E i \in 1..Len(core) : core[i] = "/"
        rel      == IF StartsWith(core, <<"/">>) THEN Tail(core) ELSE core
    IN  [negative |-> FALSE, dirOnly |-> dirOnly, anchored |-> anchored,
         parts |-> Split(rel, "/")]

makeRule(line) ==
    LET negative == line[1] = "!"
        body     == IF negative THEN Tail(line) ELSE line
        dirOnly  == body[Len(body)] = "/"
        core     == IF dirOnly THEN SubSeq(body, 1, Len(body) - 1) ELSE body
        anchored == \E i \in 1..Len(core) : core[i] = "/"
        rel      == IF StartsWith(core, <<"/">>) THEN Tail(core) ELSE core
    IN  [negative |-> negative, dirOnly |-> dirOnly, anchored |-> anchored,
         parts |-> Split(rel, "/")]

RECURSIVE makeRules(_)
makeRules(lines) ==
    IF lines = <<>> THEN <<>>
    ELSE (IF IsRuleLine(lines[1]) THEN << makeRule(lines[1]) >> ELSE <<>>)
         \o makeRules(Tail(lines))

\* ignore().add(content)
ignoreAdd(content) == makeRules(Split(content, "\n"))

\* rule.regex.test(path): parts are the path's parts, isDir says the path was
\* given with a trailing "/".
ruleTest(rule, parts, isDir) ==
    /\ rule.dirOnly => isDir
    /\ IF rule.anchored
       THEN /\ Len(parts) = Len(rule.parts)
            /\ \A i \in 1..Len(parts) : GlobChars(rule.parts[i], 1, parts[i], 1)
       ELSE GlobChars(rule.parts[1], 1, parts[Len(parts)], 1)

\* Ignore._testOne with checkUnignored = false
RECURSIVE testOne(_, _, _, _, _)
testOne(rules, parts, isDir, ignored, unignored) ==
    IF rules = <<>> THEN [ignored |-> ignored, unignored |-> unignored]
    ELSE LET rule == rules[1]
             skip == \/ (unignored = rule.negative /\ ignored # unignored)
                     \/ (rule.negative /\ ~ignored /\ ~unignored)
         IN  IF ~skip /\ ruleTest(rule, parts, isDir)
             THEN testOne(Tail(rules), parts, isDir, ~rule.negative, rule.negative)
             ELSE testOne(Tail(rules), parts, isDir, ignored, unignored)

\* Ignore._t: the parent directories are tested first, as directories.
RECURSIVE ignoreTest(_, _, _)
ignoreTest(rules, parts, isDir) ==
    IF Len(parts) = 1 THEN testOne(rules, parts, isDir, FALSE, FALSE)
    ELSE LET parent == ignoreTest(rules, SubSeq(parts, 1, Len(parts) - 1), TRUE)
         IN  IF parent.ignored THEN parent
             ELSE testOne(rules, parts, isDir, FALSE, FALSE)

\* gitignoreInstance.ignores(relativePath)
ignores(rules, relativePath) == ignoreTest(rules, Split(relativePath, "/"), FALSE).ignored

(***************************************************************************)
(* Program constants.                                                      *)
(***************************************************************************)
builtInExclusions ==
    << <<"*","*","/","n","o","d","e","_","m","o","d","u","l","e","s","/","*","*">>, <<"*","*","/","_","_","p","y","c","a","c","h","e","_","_","/","*","*">>, <<"*","*","/",".","g","i","t","/","*","*">>, <<"*","*","/",".","i","d","e","a","/","*","*">>,
       <<"*","*","/",".","v","s","c","o","d","e","/","*","*">>, <<"*","*","/",".","g","i","t","h","u","b","/","*","*">>, <<"*","*","/",".","g","i","t","l","a","b","/","*","*">>, <<"*","*","/","d","i","s","t","/","*","*">>,
       <<"*","*","/","b","u","i","l","d","/","*","*">>, <<"*","*","/","o","u","t","/","*","*">>, <<"*","*","/","t","a","r","g","e","t","/","*","*">>, <<"*","*","/","b","i","n","/","*","*">>, <<"*","*","/","o","b","j","/","*","*">>,
       <<"*","*","/","t","m","p","/","*","*">>, <<"*","*","/","t","e","m","p","/","*","*">>, <<"*","*","/","p","a","c","k","a","g","e","-","l","o","c","k",".","j","s","o","n">>, <<"*","*","/","y","a","r","n",".","l","o","c","k">>,
       <<"*","*","/","p","n","p","m","-","l","o","c","k",".","y","a","m","l">>, <<"*","*","/",".","e","n","v">>, <<"*","*","/",".","e","n","v",".","*">>, <<"*","*","/",".","D","S","_","S","t","o","r","e">>,
       <<"*","*","/","c","o","v","e","r","a","g","e","/","*","*">>, <<"*","*","/",".","n","e","x","t","/","*","*">>, <<"*","*","/",".","n","u","x","t","/","*","*">>, <<"*","*","/","v","e","n","d","o","r","/","*","*">>,
       <<"*","*","/","*",".","m","i","n",".","j","s">>, <<"*","*","/","*",".","m","i","n",".","c","s","s">>, <<"*","*","/","T","h","u","m","b","s",".","d","b">>, <<"*","*","/",".","s","a","s","s","-","c","a","c","h","e","/","*","*">>,
       <<"*","*","/","b","o","w","e","r","_","c","o","m","p","o","n","e","n","t","s","/","*","*">>, <<"*","*","/",".","c","a","c","h","e","/","*","*">>, <<"*","*","/","l","o","g","s","/","*","*">>, <<"*","*","/","*",".","l","o","g">>,
       <<"*","*","/","z","z","_","*",".","g","o">> >>

PromptSentence ==
    "This is my project, just reply ack when you receive this project, I will give you further instructions soon."

(***************************************************************************)
(* The environment: the working directory, the project tree on disk, the   *)
(* root .gitignore, and which paths fail when listed or read.              *)
(***************************************************************************)
RootPath == <<"/","w","/","p","r","o","j">>

ParentPath == <<"/","w">>

NodeModulesPath == <<"/","w","/","p","r","o","j","/","n","o","d","e","_","m","o","d","u","l","e","s">>

LibPath == <<"/","w","/","p","r","o","j","/","l","i","b">>

LibNodeModulesPath == <<"/","w","/","p","r","o","j","/","l","i","b","/","n","o","d","e","_","m","o","d","u","l","e","s">>

GitignorePath == <<"/","w","/","p","r","o","j","/",".","g","i","t","i","g","n","o","r","e">>

Dirent(name, kind) == [name |-> name, kind |-> kind]

\* What fs.promises.readdir(dir, {withFileTypes: true}) returns, in the order the
\* file system enumerates the entries.
Listing(dir, hasGitignore) ==
    IF dir = RootPath
    THEN (IF hasGitignore THEN << Dirent(<<".","g","i","t","i","g","n","o","r","e">>, "file") >> ELSE <<>>)
         \o << Dirent(<<"a",".","j","s">>, "file"), Dirent(<<"n","o","d","e","_","m","o","d","u","l","e","s">>, "dir"),
               Dirent(<<"a",".","t","e","s","t",".","j","s">>, "file"), Dirent(<<"b",".","t","x","t">>, "file"),
               Dirent(<<"k","e","e","p",".","t","x","t">>, "file"), Dirent(<<"k","e","e","p",".","l","o","g">>, "file"),
               Dirent(<<"o","t","h","e","r",".","l","o","g">>, "file"), Dirent(<<"l","i","b">>, "dir"),
               Dirent(<<"l","i","n","k">>, "other"), Dirent(<<"D","o","c","k","e","r","f","i","l","e">>, "file") >>
    ELSE IF dir = NodeModulesPath THEN << Dirent(<<"c",".","j","s">>, "file") >>
    ELSE IF dir = LibPath
    THEN << Dirent(<<"d",".","j","s">>, "file"), Dirent(<<"n","o","d","e","_","m","o","d","u","l","e","s">>, "dir"),
            Dirent(<<"d",".","t","e","s","t",".","j","s">>, "file") >>
    ELSE IF dir = LibNodeModulesPath THEN << Dirent(<<"e",".","j","s">>, "file") >>
    ELSE <<>>

\* The text fs.promises.readFile(path, "utf8") returns, one piece per file.
FileContent(path) ==
    IF path = <<"/","w","/","p","r","o","j","/","a",".","j","s">> THEN "let a;"
    ELSE IF path = <<"/","w","/","p","r","o","j","/","a",".","t","e","s","t",".","j","s">> THEN "test(a);"
    ELSE IF path = <<"/","w","/","p","r","o","j","/","b",".","t","x","t">> THEN "bee"
    ELSE IF path = <<"/","w","/","p","r","o","j","/","k","e","e","p",".","t","x","t">> THEN "kept text"
    ELSE IF path = <<"/","w","/","p","r","o","j","/","k","e","e","p",".","l","o","g">> THEN "kept log"
    ELSE IF path = <<"/","w","/","p","r","o","j","/","o","t","h","e","r",".","l","o","g">> THEN "other log"
    ELSE IF path = <<"/","w","/","p","r","o","j","/","D","o","c","k","e","r","f","i","l","e">> THEN "FROM node"
    ELSE IF path = <<"/","w","/","p","r","o","j","/","n","o","d","e","_","m","o","d","u","l","e","s","/","c",".","j","s">> THEN "let c;"
    ELSE IF path = <<"/","w","/","p","r","o","j","/","l","i","b","/","d",".","j","s">> THEN "let d;"
    ELSE IF path = <<"/","w","/","p","r","o","j","/","l","i","b","/","d",".","t","e","s","t",".","j","s">> THEN "test(d);"
    ELSE IF path = <<"/","w","/","p","r","o","j","/","l","i","b","/","n","o","d","e","_","m","o","d","u","l","e","s","/","e",".","j","s">> THEN "let e;"
    ELSE "ignore rules"

\* The root .gitignore: missing (ENOENT), present but unreadable (EACCES), or
\* present with this text.
GitignoreText ==
    <<"#"," ","l","o","g","s"," ","a","n","d"," ","n","o","t","e","s","\n","*",".","l","o","g","\n","!","k","e","e","p",".","l","o","g","\n","\n","*",".","t","x","t","\n","!","k","e","e","p",".","t","x","t","\n","l","i","b","\n","!","n","o","d","e","_","m","o","d","u","l","e","s","/","c",".","j","s">>

GitignoreStates == { "ENOENT", "EACCES", "text" }

\* Paths whose readdir / readFile may fail.
FaultCandidates ==
    { RootPath, <<"/","w","/","p","r","o","j","/","a",".","j","s">>, LibPath, NodeModulesPath }

MaxFaults == 2

(***************************************************************************)
(* The command line.  An option is a record: given says whether it was on  *)
(* the command line, value is what yargs parsed.                           *)
(***************************************************************************)
Given(v) == [given |-> TRUE, value |-> v]

NotGiven == [given |-> FALSE, value |-> <<>>]

DirArgs == { NotGiven, Given(<<" ">>), Given(RootPath) }

ExtArgs ==
    { NotGiven, Given(<<>>), Given(<< <<"j","s">> >>), Given(<< <<>> >>),
      Given(<< <<".","j","s">>, <<".","t","e","s","t",".","j","s">> >>), Given(<< <<".","l","o","g">>, <<".","t","x","t">> >>) }

IncludeArgs ==
    { NotGiven, Given(<< <<"D","o","c","k","e","r","f","i","l","e">> >>), Given(<< <<"*","*","/","D","o","c","k","e","r","f","i","l","e">>, <<"*","*","/","*",".","j","s">> >>) }

ExcludeArgs == { NotGiven, Given(<< <<"*",".","t","e","s","t",".","j","s">>, <<"l","i","b","/","n","o","d","e","_","m","o","d","u","l","e","s">> >>) }

Args ==
    [dir : DirArgs, ext : ExtArgs, include : IncludeArgs, exclude : ExcludeArgs,
     includePrompt : BOOLEAN]

\* argv.x || []
OrEmpty(opt) == IF opt.given THEN opt.value ELSE <<>>

\* args.ext.find((e) => !e.startsWith(".")): the first such element, if any.
RECURSIVE findInvalidExt(_)
findInvalidExt(ext) ==
    IF ext = <<>> THEN [found |-> FALSE, value |-> <<>>]
    ELSE IF ~StartsWith(ext[1], <<".">>) THEN [found |-> TRUE, value |-> ext[1]]
    ELSE findInvalidExt(Tail(ext))

\* JavaScript truthiness of find's result: undefined and "" are falsy.
Truthy(r) == r.found /\ r.value # <<>>

\* The yargs validation: demandOption on dir, then the .check callback.  TRUE when
\* the arguments pass, FALSE when yargs reports the error and exits with code 1.
check(args) ==
    /\ args.dir.given
    /\ ~(Trim(args.dir.value) = <<>>)
    /\ ~(  (~args.ext.given \/ Len(args.ext.value) = 0)
        /\ (~args.include.given \/ Len(args.include.value) = 0))
    /\ (args.ext.given => ~Truthy(findInvalidExt(args.ext.value)))

(***************************************************************************)
(* State.                                                                  *)
(***************************************************************************)
VARIABLES
    argv,               \* the parsed command line
    cwd,                \* process.cwd()
    fs,                 \* the file system: [gitignore, unreadable]
    pc,                 \* "parse", "gitignore", "walk" or "exit"
    rootDir, extensions, includeFiles, userExclusions, includePrompt,
    gitignoreInstance,  \* the rules of the ignore instance
    collectedContent,   \* the output buffer
    stack,              \* the activations of findAndPrintFiles, innermost last
    console,            \* what was written to the console
    fsOps,              \* the file-system calls made so far
    sink,               \* the calls of clipboardy.writeSync: [text, ok]
    exitCode

vars ==
    << argv, cwd, fs, pc, rootDir, extensions, includeFiles, userExclusions,
       includePrompt, gitignoreInstance, collectedContent, stack, console, fsOps,
       sink, exitCode >>

env == << argv, cwd, fs >>

config == << rootDir, extensions, includeFiles, userExclusions, includePrompt >>

Init ==
    /\ argv \in Args
    /\ cwd \in { RootPath, ParentPath }
    /\ fs \in { f \in [gitignore : GitignoreStates, unreadable : SUBSET FaultCandidates] :
                  Cardinality(f.unreadable) <= MaxFaults }
    /\ pc = "parse"
    /\ rootDir = <<>>
    /\ extensions = <<>>
    /\ includeFiles = <<>>
    /\ userExclusions = <<>>
    /\ includePrompt = FALSE
    /\ gitignoreInstance = <<>>
    /\ collectedContent = <<>>
    /\ stack = <<>>
    /\ console = <<>>
    /\ fsOps = <<>>
    /\ sink = <<>>
    /\ exitCode = 0

\* Each pattern of a list split on "/".
globParts(patterns) == [k \in 1..Len(patterns) |-> Split(patterns[k], "/")]

builtInParts == globParts(builtInExclusions)

\* [...builtInExclusions, ...userExclusions], each pattern split on "/".
excludePatterns == builtInParts \o globParts(userExclusions)

(***************************************************************************)
(* Selection.                                                              *)
(***************************************************************************)
\* excludePatterns.some((pattern) => minimatch(relativePath, pattern, {dot: true}))
\* The patterns are held split on "/", as minimatch splits them at every call.
matchedByCustomPattern(patterns, relativePath) ==
    LET file == Split(relativePath, "/")
    IN  \E k \in 1..Len(patterns) : matchOne(file, 1, patterns[k], 1)

\* Faulty variant of matchesExclusion: a negation of the ignore file also overrides the
\* built-in and user globs.
matchesExclusionNegationWins(patterns, rules, relativePath) ==
    \/ /\ matchedByCustomPattern(patterns, relativePath)
       /\ ~\E k \in 1..Len(rules) :
              rules[k].negative /\ ruleTest(rules[k], Split(relativePath, "/"), FALSE)
    \/ ignores(rules, relativePath)

matchesExclusion(patterns, rules, relativePath) ==
    matchedByCustomPattern(patterns, relativePath) \/ ignores(rules, relativePath)

\* Faulty variant of matchesExtension: only the first extension is tried.
matchesExtensionFirstOnly(exts, name) == exts # <<>> /\ EndsWith(name, exts[1])

matchesExtension(exts, name) == \E k \in 1..Len(exts) : EndsWith(name, exts[k])

\* entry.path is the directory the entry was listed in.
matchesInclude(patterns, cwdir, entryPath, name) ==
    \E k \in 1..Len(patterns) :
        \/ pathResolve(cwdir, pathJoin(entryPath, name)) = pathResolve(cwdir, patterns[k])
        \/ minimatch(pathJoin(entryPath, name), patterns[k])

\* Faulty variant of fileOutput: the newline that ends a block is missing.
fileOutputUnterminated(relativePath, content) ==
    << "\n=== " >> \o relativePath \o << " ===\n\n", content >>

\* `\n=== ${relativePath} ===\n\n${content}\n`
fileOutput(relativePath, content) ==
    << "\n=== " >> \o relativePath \o << " ===\n\n", content, "\n" >>

\* `${prompt}\n\n${collectedContent}` when the prompt flag is set
withPrompt(flag, content) ==
    IF flag THEN << PromptSentence, "\n\n" >> \o content ELSE content

\* Whether listing or reading path fails.
Unreadable(path) ==
    \/ path \in fs.unreadable
    \/ path = GitignorePath /\ fs.gitignore = "EACCES"

HasGitignore == fs.gitignore # "ENOENT"

Top == stack[Len(stack)]

\* return from the innermost findAndPrintFiles
Pop(st) == SubSeq(st, 1, Len(st) - 1)

\* Faulty variant of returnAfterError: the failure unwinds every pending call.
unwindAfterError(st) == <<>>

\* The catch block of findAndPrintFiles ends with a plain return: only the call
\* whose listing failed is left.
returnAfterError(st) == Pop(st)

Frame(dir) == [dir |-> dir, listed |-> FALSE, entries |-> <<>>, i |-> 1]

Msg(stream, what, path) == [stream |-> stream, what |-> what, path |-> path]

(***************************************************************************)
(* Steps.                                                                  *)
(***************************************************************************)
\* yargs parses and validates the command line; on success the configuration
\* constants are computed from it.
ParseArgs ==
    /\ pc = "parse"
    /\ IF check(argv)
       THEN /\ rootDir' = pathResolve(cwd, argv.dir.value)
            /\ extensions' = OrEmpty(argv.ext)
            /\ includeFiles' = OrEmpty(argv.include)
            /\ userExclusions' = OrEmpty(argv.exclude)
            /\ includePrompt' = argv.includePrompt
            /\ pc' = "gitignore"
            /\ UNCHANGED << console, exitCode >>
       ELSE /\ console' = Append(console, Msg("error", "usage", <<>>))
            /\ exitCode' = 1
            /\ pc' = "exit"
            /\ UNCHANGED config
    /\ UNCHANGED << env, gitignoreInstance, collectedContent, stack, fsOps, sink >>

\* The root .gitignore is read synchronously, then the walk is started at rootDir.
LoadGitignore ==
    /\ pc = "gitignore"
    /\ LET gitignorePath == pathJoin(rootDir, <<".","g","i","t","i","g","n","o","r","e">>)
       IN  /\ fsOps' = Append(fsOps, [op |-> "readFileSync", path |-> gitignorePath])
           /\ IF fs.gitignore = "text"
              THEN /\ gitignoreInstance' = ignoreAdd(GitignoreText)
                   /\ UNCHANGED console
              ELSE /\ gitignoreInstance' = <<>>
                   /\ console' = IF fs.gitignore # "ENOENT"
                                 THEN Append(console, Msg("warn", "gitignore", gitignorePath))
                                 ELSE console
    /\ collectedContent' = <<>>
    /\ stack' = << Frame(rootDir) >>
    /\ pc' = "walk"
    /\ UNCHANGED << env, config, sink, exitCode >>

\* findAndPrintFiles(dir) lists dir; a failure is logged and the call returns.
ReadDir ==
    /\ pc = "walk"
    /\ stack # <<>>
    /\ ~Top.listed
    /\ fsOps' = Append(fsOps, [op |-> "readdir", path |-> Top.dir])
    /\ IF Unreadable(Top.dir)
       THEN /\ console' = Append(console, Msg("error", "readdir", Top.dir))
            /\ stack' = returnAfterError(stack)
       ELSE /\ stack' = [stack EXCEPT ![Len(stack)] =
                            [@ EXCEPT !.listed = TRUE,
                                      !.entries = Listing(Top.dir, HasGitignore)]]
            /\ UNCHANGED console
    /\ UNCHANGED << env, pc, config, gitignoreInstance, collectedContent, sink, exitCode >>

\* One iteration of the loop over the entries, appendFileContent included.
VisitEntry ==
    /\ pc = "walk"
    /\ stack # <<>>
    /\ Top.listed
    /\ Top.i <= Len(Top.entries)
    /\ LET entry        == Top.entries[Top.i]
           fullPath     == pathJoin(Top.dir, entry.name)
           relativePath == pathRelative(rootDir, fullPath)
           advanced     == [stack EXCEPT ![Len(stack)].i = @ + 1]
       IN  IF matchesExclusion(excludePatterns, gitignoreInstance, relativePath)
           THEN /\ stack' = advanced
                /\ UNCHANGED << collectedContent, console, fsOps >>
           ELSE IF entry.kind = "dir"
           THEN /\ stack' = Append(advanced, Frame(fullPath))
                /\ UNCHANGED << collectedContent, console, fsOps >>
           ELSE IF /\ entry.kind = "file"
                   /\ \/ matchesExtension(extensions, entry.name)
                      \/ matchesInclude(includeFiles, cwd, Top.dir, entry.name)
           THEN /\ stack' = advanced
                /\ fsOps' = Append(fsOps, [op |-> "readFile", path |-> fullPath])
                /\ IF Unreadable(fullPath)
                   THEN /\ console' = Append(console, Msg("error", "readFile", fullPath))
                        /\ UNCHANGED collectedContent
                   ELSE /\ collectedContent' =
                               collectedContent
                               \o fileOutput(pathRelative(rootDir, fullPath),
                                             FileContent(fullPath))
                        /\ UNCHANGED console
           ELSE /\ stack' = advanced
                /\ UNCHANGED << collectedContent, console, fsOps >>
    /\ UNCHANGED << env, pc, config, gitignoreInstance, sink, exitCode >>

\* The loop is over: findAndPrintFiles(dir) returns to its caller.
ReturnDir ==
    /\ pc = "walk"
    /\ stack # <<>>
    /\ Top.listed
    /\ Top.i > Len(Top.entries)
    /\ stack' = Pop(stack)
    /\ UNCHANGED << env, pc, config, gitignoreInstance, collectedContent, console,
                    fsOps, sink, exitCode >>

\* The .then handler of the root call: the prompt is prepended and the buffer is
\* handed to the clipboard; if the clipboard throws, the .catch handler exits 1.
Deliver ==
    /\ pc = "walk"
    /\ stack = <<>>
    /\ LET text == withPrompt(includePrompt, collectedContent)
       IN  /\ collectedContent' = text
           /\ \E ok \in BOOLEAN :
                 /\ sink' = Append(sink, [text |-> text, ok |-> ok])
                 /\ console' = Append(console,
                                      IF ok THEN Msg("log", "copied", <<>>)
                                      ELSE Msg("error", "unexpected", <<>>))
                 /\ exitCode' = IF ok THEN 0 ELSE 1
    /\ pc' = "exit"
    /\ UNCHANGED << env, config, gitignoreInstance, stack, fsOps >>

Next == ParseArgs \/ LoadGitignore \/ ReadDir \/ VisitEntry \/ ReturnDir \/ Deliver

Spec == Init /\ [][Next]_vars

(***************************************************************************)
(* Vocabulary of the properties: the entries of the tree on disk, the      *)
(* blocks of a buffer, and what the walk is expected to deliver.           *)
(***************************************************************************)
Range(f) == { f[k] : k \in DOMAIN f }

\* Every entry below dir, as [path, name, kind, dir], the .gitignore included.
RECURSIVE NodesUnder(_)
NodesUnder(dir) ==
    LET es == Listing(dir, TRUE)
    IN  UNION { { [path |-> pathJoin(dir, es[k].name), name |-> es[k].name,
                   kind |-> es[k].kind, dir |-> dir] }
                \cup (IF es[k].kind = "dir" THEN NodesUnder(pathJoin(dir, es[k].name))
                      ELSE {}) : k \in 1..Len(es) }

AllNodes == NodesUnder(RootPath)

\* The entries on disk in the current state.
Nodes == { n \in AllNodes : n.path = GitignorePath => HasGitignore }

Files == { n \in Nodes : n.kind = "file" }

Rel(path) == pathRelative(RootPath, path)

\* The directories strictly between the root and path.
AncestorDirs(path) ==
    { d \in AllNodes : d.kind = "dir" /\ StartsWith(path, d.path \o <<"/">>) }

\* The directory names of the built-in patterns of the form **/name/**.
BuiltInDirNames ==
    { p[2] : p \in { q \in Range(builtInParts) :
                        Len(q) = 3 /\ q[1] = GLOBSTAR /\ q[3] = GLOBSTAR } }

IsBuiltInDir(n) == n.kind = "dir" /\ n.name \in BuiltInDirNames

UnderBuiltInDir(path) == \E d \in AncestorDirs(path) : IsBuiltInDir(d)

BuiltInDirFiles == { n \in AllNodes : n.kind = "file" /\ UnderBuiltInDir(n.path) }

Excluded(path) == matchesExclusion(excludePatterns, gitignoreInstance, Rel(path))

Admitted(n) ==
    \/ matchesExtension(extensions, n.name)
    \/ matchesInclude(includeFiles, cwd, n.dir, n.name)

\* Whether the pieces of h stand in buf from position i on.
StandsAt(buf, i, h) ==
    /\ buf[i] = h[1]
    /\ i + Len(h) - 1 <= Len(buf)
    /\ SubSeq(buf, i, i + Len(h) - 1) = h

BlockHeader(rel) == << "\n=== " >> \o rel \o << " ===\n\n" >>

\* The number of blocks a buffer holds for the file of relative path rel.
BlockCount(buf, rel) ==
    Cardinality({ i \in 1..Len(buf) : StandsAt(buf, i, BlockHeader(rel)) })

ExpectedBlock(path) == << "\n=== " >> \o Rel(path) \o << " ===\n\n", FileContent(path), "\n" >>

RECURSIVE ExpectedBlocks(_)
ExpectedBlocks(paths) ==
    IF paths = <<>> THEN <<>> ELSE ExpectedBlock(paths[1]) \o ExpectedBlocks(Tail(paths))

ExpectedPrefix == IF argv.includePrompt THEN << PromptSentence, "\n\n" >> ELSE <<>>

\* The files the walker admits, depth first in pre-order, the entries of each
\* directory taken from the k-th on in the order of the listing.
RECURSIVE AdmittedFrom(_, _)
AdmittedFrom(dir, k) ==
    LET es   == Listing(dir, HasGitignore)
        e    == es[k]
        path == pathJoin(dir, e.name)
        here == IF Excluded(path) THEN <<>>
                ELSE IF e.kind = "dir"
                     THEN IF Unreadable(path) THEN <<>> ELSE AdmittedFrom(path, 1)
                ELSE IF e.kind = "file" /\ Admitted([name |-> e.name, dir |-> dir])
                     THEN << path >>
                ELSE <<>>
    IN  IF k > Len(es) THEN <<>> ELSE here \o AdmittedFrom(dir, k + 1)

AdmittedFiles == IF Unreadable(RootPath) THEN <<>> ELSE AdmittedFrom(RootPath, 1)

\* The same walk over a tree from which the entries that fail have been taken
\* away, every remaining entry being readable.
RECURSIVE AdmittedWithoutFailing(_, _)
AdmittedWithoutFailing(dir, k) ==
    LET es   == Listing(dir, HasGitignore)
        e    == es[k]
        path == pathJoin(dir, e.name)
        here == IF Unreadable(path) THEN <<>>
                ELSE IF Excluded(path) THEN <<>>
                ELSE IF e.kind = "dir" THEN AdmittedWithoutFailing(path, 1)
                ELSE IF e.kind = "file" /\ Admitted([name |-> e.name, dir |-> dir])
                     THEN << path >>
                ELSE <<>>
    IN  IF k > Len(es) THEN <<>> ELSE here \o AdmittedWithoutFailing(dir, k + 1)

Readable(paths) == SelectSeq(paths, LAMBDA p : ~Unreadable(p))

\* The run is over and the buffer was handed to the clipboard.
Delivered == pc = "exit" /\ sink # <<>>

Artifact == sink[1].text

\* The same, in a run without any failure: every path is readable and the
\* clipboard accepted the text.
DeliveredCleanly == Delivered /\ sink[1].ok /\ fs.unreadable = {}

ReadDirDone(dir) == \E k \in 1..Len(fsOps) : fsOps[k] = [op |-> "readdir", path |-> dir]

ErrorLogged(what, path) ==
    \E k \in 1..Len(console) : console[k] = Msg("error", what, path)

(***************************************************************************)
(* C1.  No file beneath a directory named in the built-in exclusion list   *)
(* ever appears in the output, at any depth, whatever the extensions, the  *)
(* include patterns, the user exclusions and the ignore-file rules         *)
(* (negations included) are.                                               *)
(***************************************************************************)
C1_BuiltInDirsNeverInOutput ==
    \A n \in BuiltInDirFiles :
        /\ BlockCount(collectedContent, Rel(n.path)) = 0
        /\ \A k \in 1..Len(sink) : BlockCount(sink[k].text, Rel(n.path)) = 0

\* A finished run in which node_modules was listed, its file c.js matched an
\* extension and an include pattern and was un-ignored by the ignore file, and a
\* file outside it was delivered.
C1_Witness ==
    /\ Delivered
    /\ ReadDirDone(NodeModulesPath)
    /\ matchesExtension(extensions, <<"c",".","j","s">>)
    /\ matchesInclude(includeFiles, cwd, NodeModulesPath, <<"c",".","j","s">>)
    /\ \E k \in 1..Len(gitignoreInstance) :
          /\ gitignoreInstance[k].negative
          /\ ruleTest(gitignoreInstance[k], Split(<<"n","o","d","e","_","m","o","d","u","l","e","s","/","c",".","j","s">>, "/"), FALSE)
    /\ BlockCount(Artifact, <<"a",".","j","s">>) = 1

(***************************************************************************)
(* C8.  The artifact handed to the sink is the prompt sentence and two     *)
(* newlines exactly when the prompt flag is set, then one block per        *)
(* admitted file that was read, in admission order with nothing between    *)
(* the blocks; it is handed over exactly once, after the whole walk.       *)
(***************************************************************************)
C8_ArtifactFormat ==
    /\ sink # <<>> => pc = "exit" /\ stack = <<>>
    /\ (pc = "exit" /\ check(argv)) =>
          /\ Len(sink) = 1
          /\ Artifact = ExpectedPrefix \o ExpectedBlocks(Readable(AdmittedFiles))

\* A delivered artifact with the prompt, a block from the root, then one from a
\* subdirectory, then one more from the root, one admitted file having failed.
C8_Witness ==
    /\ Delivered
    /\ argv.includePrompt
    /\ Len(Readable(AdmittedFiles)) >= 3
    /\ Len(Readable(AdmittedFiles)) < Len(AdmittedFiles)
    /\ BlockCount(Artifact, <<"l","i","b","/","d",".","t","e","s","t",".","j","s">>) = 1
    /\ BlockCount(Artifact, <<"D","o","c","k","e","r","f","i","l","e">>) = 1

(***************************************************************************)
(* C9.  A failure to list a subdirectory or to read an admitted file never *)
(* unwinds the walk: the failing entry adds nothing to the buffer, every   *)
(* later entry is processed as if the failing entry were absent, and the   *)
(* run still ends by handing the buffer to the sink; the process fails     *)
(* only on a configuration or sink error.                                  *)
(***************************************************************************)
C9_LocalErrorsNeverUnwind ==
    (pc = "exit" /\ check(argv) /\ ~Unreadable(RootPath)) =>
        /\ Len(sink) = 1
        /\ Artifact = ExpectedPrefix \o ExpectedBlocks(AdmittedWithoutFailing(RootPath, 1))
        /\ exitCode = 1 => ~sink[1].ok

\* A finished run in which a file read and a directory listing both failed and a
\* later sibling of the failed directory was still delivered.
C9_Witness ==
    /\ Delivered
    /\ ErrorLogged("readFile", <<"/","w","/","p","r","o","j","/","a",".","j","s">>)
    /\ ErrorLogged("readdir", LibPath)
    /\ BlockCount(Artifact, <<"D","o","c","k","e","r","f","i","l","e">>) = 1
    /\ BlockCount(Artifact, <<"a",".","t","e","s","t",".","j","s">>) = 1

(***************************************************************************)
(* Shared preconditions: a file survives exclusion when neither its own    *)
(* path nor the path of a directory above it is excluded; it is reachable  *)
(* when the root and every directory above it can be listed.               *)
(***************************************************************************)
SurvivesExclusion(n) ==
    ~Excluded(n.path) /\ \A d \in AncestorDirs(n.path) : ~Excluded(d.path)

Reachable(n) ==
    ~Unreadable(RootPath) /\ \A d \in AncestorDirs(n.path) : ~Unreadable(d.path)

HasExtension(ext) == \E k \in 1..Len(extensions) : extensions[k] = ext

\* The name ends with one of the configured extensions.
EndsWithConfiguredExtension(name) ==
    \E k \in 1..Len(extensions) : EndsWith(name, extensions[k])

(***************************************************************************)
(* C2 as stated (refuted).  With the ignore rules *.log and !keep.log and  *)
(* the extension .log, keep.log appears in the output and other.log does   *)
(* not.                                                                    *)
(***************************************************************************)
C2_Original ==
    (DeliveredCleanly /\ fs.gitignore = "text" /\ HasExtension(<<".","l","o","g">>)) =>
        /\ BlockCount(Artifact, <<"k","e","e","p",".","l","o","g">>) >= 1
        /\ BlockCount(Artifact, <<"o","t","h","e","r",".","l","o","g">>) = 0

(***************************************************************************)
(* C2 as amended.  With the ignore rules *.log and !keep.log the           *)
(* ignore-file check does not exclude keep.log and excludes other.log, but *)
(* the built-in glob for *.log excludes both, so neither appears in the    *)
(* output.  A negation re-admits a file no built-in or user glob matches:  *)
(* with *.txt and !keep.txt and the extension .txt, keep.txt appears       *)
(* exactly once and another .txt file of the same directory stays          *)
(* excluded.                                                               *)
(***************************************************************************)
C2_NegationLaw ==
    (Delivered /\ fs.gitignore = "text" /\ ~Unreadable(RootPath)) =>
        /\ ~ignores(gitignoreInstance, <<"k","e","e","p",".","l","o","g">>)
        /\ ignores(gitignoreInstance, <<"o","t","h","e","r",".","l","o","g">>)
        /\ BlockCount(Artifact, <<"k","e","e","p",".","l","o","g">>) = 0
        /\ BlockCount(Artifact, <<"o","t","h","e","r",".","l","o","g">>) = 0
        /\ HasExtension(<<".","t","x","t">>) =>
              /\ BlockCount(Artifact, <<"k","e","e","p",".","t","x","t">>) = 1
              /\ BlockCount(Artifact, <<"b",".","t","x","t">>) = 0

\* A delivered run with the ignore file read, both extensions configured, and
\* keep.txt in the output.
C2_Witness ==
    /\ Delivered
    /\ fs.gitignore = "text"
    /\ HasExtension(<<".","l","o","g">>)
    /\ HasExtension(<<".","t","x","t">>)
    /\ BlockCount(Artifact, <<"k","e","e","p",".","t","x","t">>) = 1

(***************************************************************************)
(* C3 as stated (refuted by the code).  Every regular file that survives   *)
(* exclusion and whose name or root-relative path equals or glob-matches   *)
(* an include pattern has a block in the output, whatever the working      *)
(* directory is.                                                           *)
(***************************************************************************)
MatchesIncludePattern(n, pattern) ==
    \/ n.name = pattern
    \/ Rel(n.path) = pattern
    \/ minimatch(n.name, pattern)
    \/ minimatch(Rel(n.path), pattern)

C3_Original ==
    DeliveredCleanly =>
        \A n \in Files :
            ( /\ SurvivesExclusion(n)
              /\ Reachable(n)
              /\ ~Unreadable(n.path)
              /\ \E k \in 1..Len(includeFiles) : MatchesIncludePattern(n, includeFiles[k]) )
            => BlockCount(Artifact, Rel(n.path)) >= 1

(***************************************************************************)
(* C4 as stated (refuted by the code).  A directory named in the built-in  *)
(* exclusion list, or matched by a user exclusion glob or an ignore-file   *)
(* rule, is never listed, nothing below it is read or listed, and no error *)
(* is logged for it or for anything below it.                              *)
(***************************************************************************)
AtOrBelow(path, dir) == path = dir \/ StartsWith(path, dir \o <<"/">>)

C4_Original ==
    pc \in { "walk", "exit" } =>
        \A d \in Nodes :
            (d.kind = "dir" /\ (IsBuiltInDir(d) \/ Excluded(d.path))) =>
                /\ \A k \in 1..Len(fsOps) : ~AtOrBelow(fsOps[k].path, d.path)
                /\ \A k \in 1..Len(console) : ~AtOrBelow(console[k].path, d.path)

(***************************************************************************)
(* C5 as stated (refuted by the code).  With the user exclusion *.test.js  *)
(* no file whose name ends with .test.js appears in the output, in the     *)
(* root or in any subdirectory.                                            *)
(***************************************************************************)
C5_Original ==
    (argv.exclude.given /\ <<"*",".","t","e","s","t",".","j","s">> \in Range(argv.exclude.value)
       /\ fs.unreadable = {}) =>
        \A n \in AllNodes :
            (n.kind = "file" /\ EndsWith(n.name, <<".","t","e","s","t",".","j","s">>)) =>
                BlockCount(collectedContent, Rel(n.path)) = 0

(***************************************************************************)
(* C6 as stated (refuted).  Every readable regular file whose name ends    *)
(* with a configured extension and whose path and ancestor directories are *)
(* not excluded has exactly one block in the output.                       *)
(***************************************************************************)
C6_Original ==
    (Delivered /\ sink[1].ok /\ ~Unreadable(RootPath) /\ HasExtension(<<".","j","s">>)) =>
        \A n \in Files :
            ( /\ ~Unreadable(n.path)
              /\ EndsWithConfiguredExtension(n.name)
              /\ SurvivesExclusion(n) )
            => BlockCount(Artifact, Rel(n.path)) = 1

(***************************************************************************)
(* C6 as amended.  Every readable regular file whose name ends with a      *)
(* configured extension, whose path and ancestor directories are not       *)
(* excluded, and whose ancestor directories (the root included) can all be *)
(* listed, has exactly one block in the output: never zero, and never more *)
(* than one even when it matches several extensions or an extension and an *)
(* include pattern.                                                        *)
(***************************************************************************)
C6_ExactlyOnce ==
    Delivered =>
        \A n \in Files :
            ( /\ ~Unreadable(n.path)
              /\ EndsWithConfiguredExtension(n.name)
              /\ SurvivesExclusion(n)
              /\ Reachable(n) )
            => BlockCount(Artifact, Rel(n.path)) = 1

\* A delivered run in which a.test.js matched two extensions and an include
\* pattern and has one block, and b.txt, which matches none, has no block.
C6_Witness ==
    /\ Delivered
    /\ Len(extensions) = 2
    /\ EndsWith(<<"a",".","t","e","s","t",".","j","s">>, extensions[1])
    /\ EndsWith(<<"a",".","t","e","s","t",".","j","s">>, extensions[2])
    /\ matchesInclude(includeFiles, cwd, RootPath, <<"a",".","t","e","s","t",".","j","s">>)
    /\ BlockCount(Artifact, <<"a",".","t","e","s","t",".","j","s">>) = 1
    /\ BlockCount(Artifact, <<"l","i","b","/","d",".","j","s">>) = 1
    /\ BlockCount(Artifact, <<"b",".","t","x","t">>) = 0

(***************************************************************************)
(* C7 as stated (refuted by the code).  An invalid configuration (no       *)
(* --dir, neither an extension nor an include pattern, or an extension     *)
(* that does not start with ".") makes the run exit with a non-zero code   *)
(* before any file-system access and before anything reaches the sink.     *)
(***************************************************************************)
InvalidConfiguration ==
    \/ ~argv.dir.given
    \/ Trim(argv.dir.value) = <<>>
    \/ OrEmpty(argv.ext) = <<>> /\ OrEmpty(argv.include) = <<>>
    \/ \E e \in Range(OrEmpty(argv.ext)) : ~StartsWith(e, <<".">>)

C7_Original ==
    InvalidConfiguration =>
        /\ pc = "exit" => exitCode = 1
        /\ fsOps = <<>>
        /\ sink = <<>>

(***************************************************************************)
(* C10 as stated (refuted by the code).  When the root directory cannot be *)
(* listed the run ends in failure: a non-zero exit code, nothing handed to *)
(* the clipboard and no success message.                                   *)
(***************************************************************************)
C10_Original ==
    (pc = "exit" /\ check(argv) /\ Unreadable(RootPath)) =>
        /\ exitCode = 1
        /\ \A k \in 1..Len(sink) : ~sink[k].ok
        /\ \A k \in 1..Len(console) : console[k].what # "copied"

====
